---- MODULE Spec2Model ----
(***************************************************************************)
(* commandy: the menu navigation state machine and command dispatch of    *)
(* src/main.go (a bubbletea program), as a state machine.                  *)
(*                                                                         *)
(* Strings the program compares or rewrites (project names, session       *)
(* names, menu labels) are sequences of characters.  A fixed menu label   *)
(* is a one-element sequence holding the whole label, L("Back"); a name   *)
(* is a sequence over single characters, plus the two label tokens        *)
(* "Back" and "Back to menu" standing for a directory of that name.       *)
(***************************************************************************)
EXTENDS Integers, Sequences, FiniteSets, TLC

VARIABLES
    m,            \* the bubbletea model (type model, main.go:174-193)
    hostname,     \* the global hostname, set once by initialModel
    insideTmux,   \* whether $TMUX is set (isInsideTmux)
    tmux,         \* the session manager: the set of live session names
    fs,           \* the directories directly under projectsDir
    nodeModules,  \* the project paths that hold a node_modules directory
    pending,      \* commands running on bubbletea's workers, by class
    app,          \* "running", "exec" (terminal handed to a process), "quit"
    lastCmd,      \* the tea.Cmd the last Update returned
    ran,          \* the external commands the last Update ran and waited for
    user          \* what the user and the world around the program do in this run

vars == <<m, hostname, insideTmux, tmux, fs, nodeModules, pending, app, lastCmd, ran, user>>

----------------------------------------------------------------------------
(* Bounds of the model *)

MaxInitProjects == 3   \* directories under projectsDir when the program starts
MaxDirs == 4           \* directories under projectsDir at any time
MaxNameLen == 1        \* characters typed into the project-name input
MaxPending == 2        \* commands outstanding on the workers

(* Program constants *)

CharLimit == 64

----------------------------------------------------------------------------
(* Strings *)

L(s) == <<s>>

\* Byte order of the characters in play (os.ReadDir sorts by file name).
CharOrder == <<"-", ".", "/", ":", "Back", "Back to menu", "a", "b", "q", "s", "w", "x", "~/Projects">>

Rank(c) == CHOOSE i \in 1..Len(CharOrder) : CharOrder[i] = c

RECURSIVE Less(_, _)
Less(a, b) ==
    IF a = <<>> THEN b # <<>>
    ELSE IF b = <<>> THEN FALSE
    ELSE IF Head(a) = Head(b) THEN Less(Tail(a), Tail(b))
    ELSE Rank(Head(a)) < Rank(Head(b))

RECURSIVE Sorted(_)
Sorted(S) ==
    IF S = {} THEN <<>>
    ELSE LET mn == CHOOSE a \in S : \A b \in S \ {a} : Less(a, b)
         IN  <<mn>> \o Sorted(S \ {mn})

RECURSIVE ReplaceAll(_, _, _)
ReplaceAll(s, old, new) ==
    IF s = <<>> THEN <<>>
    ELSE <<IF Head(s) = old THEN new ELSE Head(s)>> \o ReplaceAll(Tail(s), old, new)

\* the replacement of the dots only
sanitizeDotsOnly(name) == ReplaceAll(name, ".", "-")

sanitizeTmuxName(name) == ReplaceAll(ReplaceAll(name, ".", "-"), ":", "-")

----------------------------------------------------------------------------
(* The environment: file system and session manager *)

projectsDir == <<"~/Projects">>

Join(dir, name) == dir \o <<"/">> \o name

\* Directory names the file system under projectsDir starts from.
NamePool == << <<"s">>, <<"a", ".", "b">>, <<"Back">>, <<"a", "-", "b">>, <<"Back to menu">> >>

\* What the directories hold: sub-directories, and package.json manifests.
SubDirs(name) == IF name = <<"s">> THEN {<<"w">>} ELSE {}

PackageJson == { Join(projectsDir, <<"a", ".", "b">>),
                 Join(projectsDir, <<"s">>),
                 Join(projectsDir, Join(<<"s">>, <<"w">>)),
                 Join(projectsDir, <<"Back">>) }

\* Session names that exist outside the program's control.
SessionPool == { <<"a", "-", "b">>, <<"Back">> }

\* Characters the user types into the project-name input.
TypedChars == {"q"}

tmuxListSessions == tmux

tmuxSessionExists(name) == name \in tmux

isInsideTmux == insideTmux

----------------------------------------------------------------------------
(* tea.Cmd values *)

NoArg == <<>>

Cmd(kind, prog, target, dir) == [kind |-> kind, prog |-> prog, target |-> target, dir |-> dir]

NilCmd == Cmd("nil", "", NoArg, NoArg)

teaQuit == Cmd("Quit", "", NoArg, NoArg)

textinputBlink == Cmd("Blink", "", NoArg, NoArg)

\* tea.ExecProcess: the terminal is handed over; the callback returns tea.Quit().
execAndQuit(prog, target, dir) == Cmd("ExecProcess", prog, target, dir)

execInDirAndQuit(dir, prog) == Cmd("ExecProcess", prog, NoArg, dir)

\* A worker function returning cmdFinishedMsg{output, err}.
execAndReturn(prog) == Cmd("Result", prog, NoArg, NoArg)

execInDir(dir, prog) == Cmd("Result", prog, NoArg, dir)

runCommand(prog) == Cmd("Result", prog, NoArg, NoArg)

\* A worker function that captures the errors itself: err is always nil.
ResultOk(prog) == Cmd("ResultOk", prog, NoArg, NoArg)

checkPorts == ResultOk("lsof")

gitStatusAll == ResultOk("git status")

gitPullAll == ResultOk("git pull")

fetchPorts == Cmd("Result", "curl", NoArg, NoArg)

dockerCleanup == ResultOk("docker")

brewUpdate == ResultOk("brew")

clearAllCaches == ResultOk("clear caches")

npmOutdatedAll == ResultOk("npm outdated (all)")

\* A worker function that runs tmux commands and returns tea.Quit().
SwitchQuit(prog, target, dir) == Cmd("SwitchQuit", prog, target, dir)

----------------------------------------------------------------------------
(* The model value and the pure parts of its methods *)

TwoColumn == {"stateBrowseProjects", "stateSelectProject"}

initialModel ==
    [ state           |-> "stateMain",
      cursor          |-> 0,
      projects        |-> <<>>,
      projectPaths    |-> <<>>,
      selectedProject |-> <<>>,
      selectedPath    |-> <<>>,
      projectAction   |-> "actionPrismaStudio",
      activeSessions  |-> {},
      sessionNames    |-> <<>>,
      selectedSession |-> <<>>,
      textInput       |-> [value |-> <<>>, focus |-> FALSE],
      message         |-> [text |-> "", arg |-> <<>>],
      messageType     |-> "",
      width           |-> 80,
      height          |-> 24 ]

\* The result of one call of Update or of a handler: the new model, the
\* command returned, and the environment as the call left it.
R(mm, c) ==
    [m |-> mm, cmd |-> c, tmux |-> tmux, fs |-> fs, nodeModules |-> nodeModules, ran |-> <<>>]

\* the result r of a handler that first ran the external commands calls with
\* exec.Command(...).Run() or .Output(), waiting for each to exit
Sync(calls, r) == [r EXCEPT !.ran = calls \o @]

\* the parent switch of goBack without its actionRemoveNodeModules case
SelectProjectParentTwoCases(action) ==
    CASE action = "actionPrismaStudio" -> "stateQuickAccess"
      [] OTHER                         -> "stateNpmUtilities"

SelectProjectParent(action) ==
    CASE action = "actionPrismaStudio"      -> "stateQuickAccess"
      [] action = "actionRemoveNodeModules" -> "stateSystemMaintenance"
      [] OTHER                              -> "stateNpmUtilities"

\* goBack with a parent map that skips a level: a project picker that returns
\* to the tools menu and a confirmation that returns to the root
goBackStateSkipsLevel(mm) ==
    CASE mm.state \in {"stateBrowseProjects", "stateSetupProject", "stateTools", "stateSessions",
                       "stateSetupProjectConfirm"}
            -> "stateMain"
      [] mm.state = "stateSessionActions"      -> "stateSessions"
      [] mm.state = "stateProjectActions"      -> "stateBrowseProjects"
      [] OTHER                                 -> "stateTools"

goBackState(mm) ==
    CASE mm.state \in {"stateBrowseProjects", "stateSetupProject", "stateTools", "stateSessions"}
            -> "stateMain"
      [] mm.state = "stateSessionActions"      -> "stateSessions"
      [] mm.state = "stateProjectActions"      -> "stateBrowseProjects"
      [] mm.state = "stateSetupProjectConfirm" -> "stateSetupProject"
      [] mm.state \in {"stateQuickAccess", "stateDevTools", "statePortAuthority",
                       "stateSystemMaintenance", "stateNpmUtilities"}
            -> "stateTools"
      [] mm.state = "stateSelectProject"       -> SelectProjectParent(mm.projectAction)
      [] OTHER                                 -> "stateMain"

\* goBack without its final m.cursor = 0
goBackKeepCursor(mm) == [mm EXCEPT !.state = goBackState(mm)]

\* goBack that resets the cursor only when the state changes
goBackResetOnChange(mm) ==
    [mm EXCEPT !.state = goBackState(mm),
               !.cursor = IF goBackState(mm) = mm.state THEN @ ELSE 0]

goBack(mm) == [mm EXCEPT !.state = goBackState(mm), !.cursor = 0]

\* the root menu without the hostname checks
MainItemsAnyHost ==
    <<L("Connect to dev"), L("Browse Projects"), L("Setup New Project"), L("Tools"),
      L("Sessions"), L("Skip")>>

\* the root menu with a first item for each host
MainItemsHostFirst ==
    <<IF hostname = "dev.lan" THEN L("Sessions") ELSE L("Connect to dev"),
      L("Browse Projects"), L("Setup New Project"), L("Tools"), L("Skip")>>

MainItems ==
    (IF hostname # "dev.lan" THEN <<L("Connect to dev")>> ELSE <<>>)
    \o <<L("Browse Projects"), L("Setup New Project"), L("Tools")>>
    \o (IF hostname = "dev.lan" THEN <<L("Sessions")>> ELSE <<>>)
    \o <<L("Skip")>>

\* the items of the project actions without the final "Back"
ProjectActionsItemsNoBack(mm) ==
    IF sanitizeTmuxName(mm.selectedProject) \in mm.activeSessions
    THEN <<L("Attach"), L("Claude-logged"), L("Kill session")>>
    ELSE <<L("Open"), L("Claude-logged")>>

ProjectActionsItems(mm) ==
    LET sessionName == sanitizeTmuxName(mm.selectedProject)
        hasSession  == sessionName \in mm.activeSessions
    IN  <<IF hasSession THEN L("Attach") ELSE L("Open"), L("Claude-logged")>>
        \o (IF hasSession THEN <<L("Kill session")>> ELSE <<>>)
        \o <<L("Back")>>

QuickAccessItems ==
    IF hostname = "mac"
    THEN <<L("SSH to MacBookPro"), L("Open GitHub"), L("Prisma Studio (select project)"),
           L("PostgreSQL shell"), L("Back")>>
    ELSE <<L("SSH to dev"), L("Open GitHub"), L("Prisma Studio (select project)"),
           L("PostgreSQL shell"), L("Back")>>

getMenuItems(mm) ==
    CASE mm.state = "stateMain"           -> MainItems
      [] mm.state = "stateBrowseProjects" -> mm.projects \o <<L("Back to menu")>>
      [] mm.state = "stateProjectActions" -> ProjectActionsItems(mm)
      [] mm.state = "stateSessions" ->
            IF Len(mm.sessionNames) = 0 THEN <<L("Back")>>
            ELSE mm.sessionNames \o <<L("Back")>>
      [] mm.state = "stateSessionActions" ->
            <<L("Resume"), L("Kill session"), L("Back")>>
      [] mm.state = "stateSetupProjectConfirm" ->
            <<L("Start working here"), L("Launch claude-logged"), L("Back to menu")>>
      [] mm.state = "stateTools" ->
            <<L("Quick Access"), L("Dev Tools"), L("Port Authority"),
              L("System Maintenance"), L("NPM Utilities"), L("Back")>>
      [] mm.state = "stateQuickAccess" -> QuickAccessItems
      [] mm.state = "stateDevTools" ->
            <<L("Kill process on port"), L("Check port usage"), L("Start ngrok"),
              L("Git status (all projects)"), L("Git pull (all projects)"), L("Back")>>
      [] mm.state = "statePortAuthority" ->
            <<L("Check project ports"), L("Setup ports for project"), L("Update project port"),
              L("View all registered ports"), L("Open dashboard"), L("Back")>>
      [] mm.state = "stateSystemMaintenance" ->
            <<L("Docker cleanup"), L("Homebrew update"), L("Clear npm cache"),
              L("Remove node_modules (select project)"), L("Clear all caches"), L("Back")>>
      [] mm.state = "stateNpmUtilities" ->
            <<L("npm audit"), L("npm outdated"), L("npm update"), L("npm dedupe"),
              L("npm install"), L("Check outdated (all)"), L("Back")>>
      [] mm.state = "stateSelectProject" -> mm.projects \o <<L("Back")>>
      [] OTHER -> <<>>

\* rows := (len(items) + 1) / 2
Rows(n) == (n + 1) \div 2

ItemCount(mm) == Len(getMenuItems(mm))

\* "up" that wraps from the first item to the last
CursorUpWrap(state, c, n) ==
    IF state \in TwoColumn
    THEN IF c > 0 /\ c < Rows(n) THEN c - 1
         ELSE IF c >= Rows(n) /\ c > Rows(n) THEN c - 1
         ELSE IF c = Rows(n) THEN Rows(n) - 1
         ELSE c
    ELSE IF c > 0 THEN c - 1 ELSE n - 1

\* "down" without the len(items)-1 bounds
CursorDownUnbounded(state, c, n) ==
    IF state \in TwoColumn
    THEN IF c < Rows(n) - 1 THEN c + 1
         ELSE IF c >= Rows(n) THEN c + 1
         ELSE IF c = Rows(n) - 1 /\ Rows(n) < n THEN Rows(n)
         ELSE c
    ELSE c + 1

\* "right" without the newPos < len(items) check
CursorRightUnchecked(state, c, n) ==
    IF state \in TwoColumn /\ c < Rows(n) THEN c + Rows(n) ELSE c

\* case "up", "k": c is m.cursor, n is len(items)
CursorUp(state, c, n) ==
    IF state \in TwoColumn
    THEN IF c > 0 /\ c < Rows(n) THEN c - 1
         ELSE IF c >= Rows(n) /\ c > Rows(n) THEN c - 1
         ELSE IF c = Rows(n) THEN Rows(n) - 1
         ELSE c
    ELSE IF c > 0 THEN c - 1 ELSE c

\* case "down", "j"
CursorDown(state, c, n) ==
    IF state \in TwoColumn
    THEN IF c < Rows(n) - 1 THEN c + 1
         ELSE IF c >= Rows(n) /\ c < n - 1 THEN c + 1
         ELSE IF c = Rows(n) - 1 /\ Rows(n) < n THEN Rows(n)
         ELSE c
    ELSE IF c < n - 1 THEN c + 1 ELSE c

\* case "left", "h"
CursorLeft(state, c, n) ==
    IF state \in TwoColumn /\ c >= Rows(n) THEN c - Rows(n) ELSE c

\* case "right", "l"
CursorRight(state, c, n) ==
    IF state \in TwoColumn /\ c < Rows(n) /\ c + Rows(n) < n THEN c + Rows(n) ELSE c

----------------------------------------------------------------------------
(* Loading the catalog and the session list *)

RECURSIVE PackageJsonProjects(_)
\* the packageJsonOnly branch of loadProjects over the sorted entries: each
\* entry with a manifest, then its sub-directories with a manifest
PackageJsonProjects(entries) ==
    IF entries = <<>> THEN <<>>
    ELSE LET entry == Head(entries)
             path  == Join(projectsDir, entry)
             own   == IF path \in PackageJson THEN <<[name |-> entry, path |-> path]>> ELSE <<>>
             subs  == Sorted(SubDirs(entry))
             sub   == SelectSeq(subs, LAMBDA s : Join(path, s) \in PackageJson)
             subPs == [i \in 1..Len(sub) |->
                          [name |-> entry \o <<"/">> \o sub[i], path |-> Join(path, sub[i])]]
         IN  own \o subPs \o PackageJsonProjects(Tail(entries))

loadProjects(mm, packageJsonOnly) ==
    LET entries == Sorted(fs)
        found   == IF packageJsonOnly THEN PackageJsonProjects(entries)
                   ELSE [i \in 1..Len(entries) |->
                            [name |-> entries[i], path |-> Join(projectsDir, entries[i])]]
    IN  [mm EXCEPT !.projects       = [i \in 1..Len(found) |-> found[i].name],
                   !.projectPaths   = [i \in 1..Len(found) |-> found[i].path],
                   !.activeSessions = IF packageJsonOnly THEN @ ELSE tmuxListSessions]

\* `for name := range sessions`: Go iterates a map in an unspecified order;
\* order is the order this call happens to produce.
loadSessions(mm, sessions, order) ==
    [mm EXCEPT !.sessionNames = SelectSeq(order, LAMBDA s : s \in sessions)]


----------------------------------------------------------------------------
(* The selection handlers *)

Message(text, arg) == [text |-> text, arg |-> arg]

NoMessage == Message("", <<>>)

Say(mm, text, arg, type) == [mm EXCEPT !.message = Message(text, arg), !.messageType = type]

Enter(mm, state) == [mm EXCEPT !.state = state, !.cursor = 0]

handleMainMenu(mm, selected, nd) ==
    CASE selected = L("Connect to dev")    -> R(mm, execAndQuit("ssh", <<"dev">>, NoArg))
      [] selected = L("Browse Projects")   ->
            Sync(<<"tmux list-sessions">>,
                 R(loadProjects(Enter(mm, "stateBrowseProjects"), FALSE), NilCmd))
      [] selected = L("Setup New Project") ->
            R([Enter(mm, "stateSetupProject") EXCEPT !.textInput = [value |-> <<>>, focus |-> TRUE]],
              textinputBlink)
      [] selected = L("Tools")             -> R(Enter(mm, "stateTools"), NilCmd)
      [] selected = L("Sessions")          ->
            Sync(<<"tmux list-sessions">>,
                 R(loadSessions(Enter(mm, "stateSessions"), tmuxListSessions, nd.order), NilCmd))
      [] selected = L("Skip")              -> R(mm, teaQuit)
      [] OTHER                             -> R(mm, NilCmd)

\* the index (from 1) of the first project equal to selected, 0 when there is none
FindProject(mm, selected) ==
    IF \E i \in 1..Len(mm.projects) : mm.projects[i] = selected
    THEN CHOOSE i \in 1..Len(mm.projects) :
            /\ mm.projects[i] = selected
            /\ \A j \in 1..(i - 1) : mm.projects[j] # selected
    ELSE 0

\* handleBrowseProjects without m.activeSessions = tmuxListSessions()
handleBrowseProjectsKeepsSessions(mm, selected) ==
    IF selected = L("Back to menu") THEN R(goBack(mm), NilCmd)
    ELSE IF FindProject(mm, selected) = 0 THEN R(mm, NilCmd)
    ELSE R([mm EXCEPT !.selectedProject = selected,
                      !.selectedPath    = mm.projectPaths[FindProject(mm, selected)],
                      !.state           = "stateProjectActions",
                      !.cursor          = 0], NilCmd)

handleBrowseProjects(mm, selected) ==
    IF selected = L("Back to menu") THEN R(goBack(mm), NilCmd)
    ELSE IF FindProject(mm, selected) = 0 THEN R(mm, NilCmd)
    ELSE Sync(<<"tmux list-sessions">>,
              R([mm EXCEPT !.selectedProject = selected,
                           !.selectedPath    = mm.projectPaths[FindProject(mm, selected)],
                           !.state           = "stateProjectActions",
                           !.cursor          = 0,
                           !.activeSessions  = tmuxListSessions], NilCmd))

\* attach without the isInsideTmux() check
AttachCmdAlwaysExec(sessionName) == execAndQuit("tmux attach", sessionName, NoArg)

\* attach to (or switch to) an existing session
AttachCmd(sessionName) ==
    IF isInsideTmux THEN SwitchQuit("tmux switch-client", sessionName, NoArg)
    ELSE execAndQuit("tmux attach", sessionName, NoArg)

\* create a session named sessionName in dir, running prog
NewSessionCmd(sessionName, dir, prog) ==
    IF isInsideTmux THEN SwitchQuit(prog, sessionName, dir)
    ELSE execAndQuit(prog, sessionName, dir)

\* switch selected, after exists := tmuxSessionExists(sessionName)
ProjectAction(mm, selected, sessionName, exists) ==
    CASE selected \in {L("Attach"), L("Open")} ->
            IF exists THEN R(mm, AttachCmd(sessionName))
            ELSE R(mm, NewSessionCmd(sessionName, mm.selectedPath, "tmux new-session"))
      [] selected = L("Claude-logged") ->
            IF exists THEN Sync(<<"tmux new-window">>, R(mm, AttachCmd(sessionName)))
            ELSE R(mm, NewSessionCmd(sessionName, mm.selectedPath,
                                     "tmux new-session claude-logged"))
      [] selected = L("Kill session") ->
            Sync(<<"tmux kill-session", "tmux list-sessions">>,
                 [R(goBack(Say([mm EXCEPT !.activeSessions = tmux \ {sessionName}],
                               "Killed tmux session", sessionName, "success")), NilCmd)
                     EXCEPT !.tmux = tmux \ {sessionName}])
      [] selected = L("Back") -> R(goBack(mm), NilCmd)
      [] OTHER -> R(mm, NilCmd)

\* the decision taken from the session list kept in the model
handleProjectActionsCached(mm, selected) ==
    Sync(<<"tmux has-session">>,
         ProjectAction(mm, selected, sanitizeTmuxName(mm.selectedProject),
                       sanitizeTmuxName(mm.selectedProject) \in mm.activeSessions))

handleProjectActions(mm, selected) ==
    Sync(<<"tmux has-session">>,
         ProjectAction(mm, selected, sanitizeTmuxName(mm.selectedProject),
                       tmuxSessionExists(sanitizeTmuxName(mm.selectedProject))))

handleSessions(mm, selected) ==
    IF selected = L("Back") THEN R(goBack(mm), NilCmd)
    ELSE R([Enter(mm, "stateSessionActions") EXCEPT !.selectedSession = selected], NilCmd)

\* after the kill and loadSessions: if len(m.sessionNames) == 0 ... return m.goBack()
AfterSessionKill(mm) ==
    IF Len(mm.sessionNames) = 0 THEN Enter(mm, "stateSessions") ELSE goBack(mm)

handleSessionActions(mm, selected, nd) ==
    CASE selected = L("Resume") -> R(mm, AttachCmd(mm.selectedSession))
      [] selected = L("Kill session") ->
            Sync(<<"tmux kill-session", "tmux list-sessions">>,
                 [R(AfterSessionKill(loadSessions(
                          Say(mm, "Killed tmux session", mm.selectedSession, "success"),
                          tmux \ {mm.selectedSession}, nd.order)), NilCmd)
                     EXCEPT !.tmux = tmux \ {mm.selectedSession}])
      [] selected = L("Back") -> R(goBack(mm), NilCmd)
      [] OTHER -> R(mm, NilCmd)

\* createProject without the check of the error of git init
createProjectIgnoresGit(mm, name, nd) ==
    IF name \in fs THEN R(Say(mm, "Project already exists!", <<>>, "error"), NilCmd)
    ELSE IF ~nd.mkdirOk THEN R(Say(mm, "Error creating directory", <<>>, "error"), NilCmd)
    ELSE [R(Say([mm EXCEPT !.selectedProject = name,
                           !.selectedPath    = Join(projectsDir, name),
                           !.state           = "stateSetupProjectConfirm",
                           !.cursor          = 0,
                           !.textInput       = [value |-> <<>>, focus |-> FALSE]],
                "Project created", name, "success"), NilCmd)
             EXCEPT !.fs = fs \cup {name}, !.ran = <<"git init">>]

createProject(mm, name, nd) ==
    LET projectPath == Join(projectsDir, name)
    IN  IF name \in fs THEN R(Say(mm, "Project already exists!", <<>>, "error"), NilCmd)
        ELSE IF ~nd.mkdirOk THEN R(Say(mm, "Error creating directory", <<>>, "error"), NilCmd)
        ELSE IF ~nd.gitOk
        THEN [R(Say(mm, "Error initializing git", <<>>, "error"), NilCmd)
                 EXCEPT !.fs = fs \cup {name}, !.ran = <<"git init">>]
        ELSE [R(Say([mm EXCEPT !.selectedProject = name,
                               !.selectedPath    = projectPath,
                               !.state           = "stateSetupProjectConfirm",
                               !.cursor          = 0,
                               !.textInput       = [value |-> <<>>, focus |-> FALSE]],
                    "Project created", name, "success"), NilCmd)
                 EXCEPT !.fs = fs \cup {name}, !.ran = <<"git init">>]

handleSetupConfirm(mm, selected) ==
    LET sessionName == sanitizeTmuxName(mm.selectedProject)
    IN  CASE selected = L("Start working here") ->
                R(mm, NewSessionCmd(sessionName, mm.selectedPath, "tmux new-session"))
          [] selected = L("Launch claude-logged") ->
                R(mm, NewSessionCmd(sessionName, mm.selectedPath, "tmux new-session claude-logged"))
          [] selected = L("Back to menu") -> R(Enter(mm, "stateMain"), NilCmd)
          [] OTHER -> R(mm, NilCmd)

\* handleToolsMenu without a case for "Port Authority"
handleToolsMenuFiveCases(mm, selected) ==
    CASE selected = L("Quick Access")       -> R(Enter(mm, "stateQuickAccess"), NilCmd)
      [] selected = L("Dev Tools")          -> R(Enter(mm, "stateDevTools"), NilCmd)
      [] selected = L("System Maintenance") -> R(Enter(mm, "stateSystemMaintenance"), NilCmd)
      [] selected = L("NPM Utilities")      -> R(Enter(mm, "stateNpmUtilities"), NilCmd)
      [] selected = L("Back")               -> R(goBack(mm), NilCmd)
      [] OTHER                              -> R(mm, NilCmd)

handleToolsMenu(mm, selected) ==
    CASE selected = L("Quick Access")       -> R(Enter(mm, "stateQuickAccess"), NilCmd)
      [] selected = L("Dev Tools")          -> R(Enter(mm, "stateDevTools"), NilCmd)
      [] selected = L("Port Authority")     -> R(Enter(mm, "statePortAuthority"), NilCmd)
      [] selected = L("System Maintenance") -> R(Enter(mm, "stateSystemMaintenance"), NilCmd)
      [] selected = L("NPM Utilities")      -> R(Enter(mm, "stateNpmUtilities"), NilCmd)
      [] selected = L("Back")               -> R(goBack(mm), NilCmd)
      [] OTHER                              -> R(mm, NilCmd)

\* a project picker entered without replacing the pending action of an earlier visit
EnterSelectProjectKeepsAction(mm, action) ==
    R(loadProjects(Enter(mm, "stateSelectProject"), TRUE), NilCmd)

\* m.projectAction = action; m.state = stateSelectProject; m.cursor = 0; m.loadProjects(true)
EnterSelectProject(mm, action) ==
    R(loadProjects([Enter(mm, "stateSelectProject") EXCEPT !.projectAction = action], TRUE),
      NilCmd)

handleQuickAccess(mm, selected) ==
    CASE selected = L("SSH to MacBookPro") ->
            R(mm, execAndQuit("ssh", <<"alexander@MacBookPro.local">>, NoArg))
      [] selected = L("SSH to dev")        -> R(mm, execAndQuit("ssh", <<"dev">>, NoArg))
      [] selected = L("Open GitHub")       ->
            R(Say(mm, "Opened GitHub in browser", <<>>, "success"), NilCmd)
      [] selected = L("Prisma Studio (select project)") ->
            EnterSelectProject(mm, "actionPrismaStudio")
      [] selected = L("PostgreSQL shell")  -> R(mm, execAndQuit("psql", NoArg, NoArg))
      [] selected = L("Back")              -> R(goBack(mm), NilCmd)
      [] OTHER                             -> R(mm, NilCmd)

handleDevTools(mm, selected) ==
    CASE selected = L("Kill process on port") ->
            R(Say(mm, "Use: lsof -ti:PORT | xargs kill -9", <<>>, "info"), NilCmd)
      [] selected = L("Check port usage")          -> R(mm, checkPorts)
      [] selected = L("Start ngrok")               -> R(mm, execAndQuit("ngrok", NoArg, NoArg))
      [] selected = L("Git status (all projects)") -> R(mm, gitStatusAll)
      [] selected = L("Git pull (all projects)")   -> R(mm, gitPullAll)
      [] selected = L("Back")                      -> R(goBack(mm), NilCmd)
      [] OTHER                                     -> R(mm, NilCmd)

handlePortAuthority(mm, selected) ==
    CASE selected = L("Open dashboard") ->
            R(Say(mm, "Opened Port Authority dashboard", <<>>, "success"), NilCmd)
      [] selected = L("View all registered ports") -> R(mm, fetchPorts)
      [] selected = L("Back")                      -> R(goBack(mm), NilCmd)
      [] OTHER ->
            R(Say(mm, "Feature available via Port Authority dashboard", <<>>, "info"), NilCmd)

handleSystemMaintenance(mm, selected) ==
    CASE selected = L("Docker cleanup")   -> R(mm, dockerCleanup)
      [] selected = L("Homebrew update")  -> R(mm, brewUpdate)
      [] selected = L("Clear npm cache")  -> R(mm, execAndReturn("npm cache clean"))
      [] selected = L("Remove node_modules (select project)") ->
            EnterSelectProject(mm, "actionRemoveNodeModules")
      [] selected = L("Clear all caches") -> R(mm, clearAllCaches)
      [] selected = L("Back")             -> R(goBack(mm), NilCmd)
      [] OTHER                            -> R(mm, NilCmd)

handleNpmUtilities(mm, selected) ==
    CASE selected = L("npm audit")    -> EnterSelectProject(mm, "actionNpmAudit")
      [] selected = L("npm outdated") -> EnterSelectProject(mm, "actionNpmOutdated")
      [] selected = L("npm update")   -> EnterSelectProject(mm, "actionNpmUpdate")
      [] selected = L("npm dedupe")   -> EnterSelectProject(mm, "actionNpmDedupe")
      [] selected = L("npm install")  -> EnterSelectProject(mm, "actionNpmInstall")
      [] selected = L("Check outdated (all)") -> R(mm, npmOutdatedAll)
      [] selected = L("Back")         -> R(goBack(mm), NilCmd)
      [] OTHER                        -> R(mm, NilCmd)

\* remove node_modules applied to every project instead of the chosen one
RunProjectActionRemovesAll(mm, selected, projectPath) ==
    CASE mm.projectAction = "actionPrismaStudio" ->
            R(mm, execInDirAndQuit(projectPath, "npx prisma studio"))
      [] mm.projectAction = "actionRemoveNodeModules" ->
            [R(goBack(Say(mm, "Removed node_modules from", selected, "success")), NilCmd)
                EXCEPT !.nodeModules = {}]
      [] OTHER -> R(mm, execInDir(projectPath, "npm"))

\* switch m.projectAction, in handleSelectProject
RunProjectAction(mm, selected, projectPath) ==
    CASE mm.projectAction = "actionPrismaStudio" ->
            R(mm, execInDirAndQuit(projectPath, "npx prisma studio"))
      [] mm.projectAction = "actionRemoveNodeModules" ->
            [R(goBack(Say(mm, "Removed node_modules from", selected, "success")), NilCmd)
                EXCEPT !.nodeModules = nodeModules \ {projectPath}]
      [] mm.projectAction = "actionNpmAudit"    -> R(mm, execInDir(projectPath, "npm audit"))
      [] mm.projectAction = "actionNpmOutdated" -> R(mm, execInDir(projectPath, "npm outdated"))
      [] mm.projectAction = "actionNpmUpdate"   -> R(mm, execInDir(projectPath, "npm update"))
      [] mm.projectAction = "actionNpmDedupe"   -> R(mm, execInDir(projectPath, "npm dedupe"))
      [] mm.projectAction = "actionNpmInstall"  -> R(mm, execInDir(projectPath, "npm install"))
      [] OTHER -> R(mm, NilCmd)

handleSelectProject(mm, selected) ==
    IF selected = L("Back") THEN R(goBack(mm), NilCmd)
    ELSE IF FindProject(mm, selected) = 0 THEN R(mm, NilCmd)
    ELSE RunProjectAction(mm, selected, mm.projectPaths[FindProject(mm, selected)])

\* switch m.state, in handleSelection
handleSelected(mm, selected, nd) ==
    CASE mm.state = "stateMain"                -> handleMainMenu(mm, selected, nd)
      [] mm.state = "stateBrowseProjects"      -> handleBrowseProjects(mm, selected)
      [] mm.state = "stateProjectActions"      -> handleProjectActions(mm, selected)
      [] mm.state = "stateSessions"            -> handleSessions(mm, selected)
      [] mm.state = "stateSessionActions"      -> handleSessionActions(mm, selected, nd)
      [] mm.state = "stateSetupProjectConfirm" -> handleSetupConfirm(mm, selected)
      [] mm.state = "stateTools"               -> handleToolsMenu(mm, selected)
      [] mm.state = "stateQuickAccess"         -> handleQuickAccess(mm, selected)
      [] mm.state = "stateDevTools"            -> handleDevTools(mm, selected)
      [] mm.state = "statePortAuthority"       -> handlePortAuthority(mm, selected)
      [] mm.state = "stateSystemMaintenance"   -> handleSystemMaintenance(mm, selected)
      [] mm.state = "stateNpmUtilities"        -> handleNpmUtilities(mm, selected)
      [] mm.state = "stateSelectProject"       -> handleSelectProject(mm, selected)
      [] OTHER                                 -> R(mm, NilCmd)

handleSelection(mm, nd) ==
    IF mm.cursor >= ItemCount(mm) THEN R(mm, NilCmd)
    ELSE handleSelected(mm, getMenuItems(mm)[mm.cursor + 1], nd)

----------------------------------------------------------------------------
(* Update *)

Digits == {"1", "2", "3", "4", "5", "6", "7", "8", "9"}

\* the index of a digit key counted from '0'
DigitIndexFromZero(key) ==
    CASE key = "1" -> 1 [] key = "2" -> 2 [] key = "3" -> 3 [] key = "4" -> 4 [] key = "5" -> 5
      [] key = "6" -> 6 [] key = "7" -> 7 [] key = "8" -> 8 [] key = "9" -> 9

\* idx := int(msg.String()[0] - '1')
DigitIndex(key) ==
    CASE key = "1" -> 0 [] key = "2" -> 1 [] key = "3" -> 2 [] key = "4" -> 3 [] key = "5" -> 4
      [] key = "6" -> 5 [] key = "7" -> 6 [] key = "8" -> 7 [] key = "9" -> 8

\* the keys that carry a printable character
Runes == TypedChars \cup Digits \cup {"q", "k", "j", "h", "l", " "}

\* the keys the user presses in this model
Keys == {"ctrl+c", "q", "esc", "up", "down", "left", "right", "enter", "backspace"}
            \cup Digits \cup TypedChars

KeyMsg(key) == [type |-> "KeyMsg", key |-> key, err |-> FALSE, width |-> 0, height |-> 0]

WindowSizeMsg(w, h) == [type |-> "WindowSizeMsg", key |-> "", err |-> FALSE, width |-> w, height |-> h]

cmdFinishedMsg(err) == [type |-> "cmdFinishedMsg", key |-> "", err |-> err, width |-> 0, height |-> 0]

\* tea.Quit(): the message that ends the event loop
QuitMsg == [type |-> "QuitMsg", key |-> "", err |-> FALSE, width |-> 0, height |-> 0]

\* a callback of tea.ExecProcess that reports the failure of the process
ExecCallbackReportsError(err) == IF err THEN cmdFinishedMsg(TRUE) ELSE QuitMsg

\* func(err error) tea.Msg { return tea.Quit() }: the callback that execAndQuit
\* and execInDirAndQuit hand to tea.ExecProcess; err is the launch or exit error
ExecCallback(err) == QuitMsg

\* bubbles/textinput Model.Update: nothing while blurred; a printable key is
\* appended up to CharLimit; backspace removes the last character.
textInputUpdate(ti, key) ==
    IF ~ti.focus THEN ti
    ELSE IF key \in Runes
    THEN IF Len(ti.value) < CharLimit THEN [ti EXCEPT !.value = Append(@, key)] ELSE ti
    ELSE IF key = "backspace" /\ Len(ti.value) > 0
    THEN [ti EXCEPT !.value = SubSeq(@, 1, Len(@) - 1)]
    ELSE ti

\* case tea.KeyMsg, if m.state == stateSetupProject
UpdateSetupProject(mm, key, nd) ==
    CASE key = "ctrl+c" -> R(mm, teaQuit)
      [] key = "esc"    -> R(goBack([mm EXCEPT !.textInput.value = <<>>]), NilCmd)
      [] key = "enter"  ->
            IF mm.textInput.value = <<>>
            THEN R(Say(mm, "Project name cannot be empty", <<>>, "error"), NilCmd)
            ELSE createProject(mm, mm.textInput.value, nd)
      [] OTHER -> R([mm EXCEPT !.textInput = textInputUpdate(@, key)], NilCmd)

\* "ctrl+c", "q" without the m.state == stateMain check
QuitAnywhere(mm) == R(mm, teaQuit)

\* case "ctrl+c", "q"
QuitOrBack(mm) == IF mm.state = "stateMain" THEN R(mm, teaQuit) ELSE R(goBack(mm), NilCmd)

\* case tea.KeyMsg, the menu states; mm has its message cleared
UpdateMenuKey(mm, key, nd) ==
    CASE key \in {"ctrl+c", "q"} -> QuitOrBack(mm)
      [] key = "esc"             -> R(goBack(mm), NilCmd)
      [] key \in {"up", "k"}     ->
            R([mm EXCEPT !.cursor = CursorUp(mm.state, mm.cursor, ItemCount(mm))], NilCmd)
      [] key \in {"down", "j"}   ->
            R([mm EXCEPT !.cursor = CursorDown(mm.state, mm.cursor, ItemCount(mm))], NilCmd)
      [] key \in {"left", "h"}   ->
            R([mm EXCEPT !.cursor = CursorLeft(mm.state, mm.cursor, ItemCount(mm))], NilCmd)
      [] key \in {"right", "l"}  ->
            R([mm EXCEPT !.cursor = CursorRight(mm.state, mm.cursor, ItemCount(mm))], NilCmd)
      [] key \in {"enter", " "}  -> handleSelection(mm, nd)
      [] key \in Digits ->
            IF DigitIndex(key) < ItemCount(mm)
            THEN handleSelection([mm EXCEPT !.cursor = DigitIndex(key)], nd)
            ELSE R(mm, NilCmd)
      [] OTHER -> R(mm, NilCmd)

ClearMessage(mm) == [mm EXCEPT !.message = NoMessage, !.messageType = ""]

\* the result of a command shown in the menu the command was started from
UpdateCmdFinishedGoesBack(mm, msg) ==
    IF msg.err THEN R(Say(goBack(mm), "Error", <<"output">>, "error"), NilCmd)
    ELSE R(Say(goBack(mm), "output", <<>>, "success"), NilCmd)

\* case cmdFinishedMsg
UpdateCmdFinished(mm, msg) ==
    IF msg.err THEN R(Say(mm, "Error", <<"output">>, "error"), NilCmd)
    ELSE R(Say(mm, "output", <<>>, "success"), NilCmd)

Update(mm, msg, nd) ==
    CASE msg.type = "WindowSizeMsg" ->
            R([mm EXCEPT !.width = msg.width, !.height = msg.height], NilCmd)
      [] msg.type = "KeyMsg" ->
            IF mm.state = "stateSetupProject" THEN UpdateSetupProject(mm, msg.key, nd)
            ELSE UpdateMenuKey(ClearMessage(mm), msg.key, nd)
      [] msg.type = "cmdFinishedMsg" -> UpdateCmdFinished(mm, msg)
      [] OTHER -> R(mm, NilCmd)

----------------------------------------------------------------------------
(* The event loop *)

Sizes == {<<80, 24>>, <<120, 40>>}

\* the orders a Go map iteration over the sessions can produce
Orders == {o \in [1..Cardinality(SessionPool) -> SessionPool] : \A i, j \in DOMAIN o : o[i] = o[j] => i = j}

\* what the environment decides during one call of Update
Outcomes == [mkdirOk : BOOLEAN, gitOk : BOOLEAN, order : Orders]

AnyOutcome == CHOOSE nd \in Outcomes : TRUE

\* the outcomes that Update can consult when it handles key in the current state
OutcomesFor(key) ==
    IF m.state = "stateSetupProject" /\ key = "enter"
    THEN {nd \in Outcomes : nd.order = AnyOutcome.order}
    ELSE IF m.state \in {"stateMain", "stateSessionActions"} /\ key \in Digits \cup {"enter"}
    THEN {nd \in Outcomes : nd.mkdirOk = AnyOutcome.mkdirOk /\ nd.gitOk = AnyOutcome.gitOk}
    ELSE {AnyOutcome}

NoPending == [Result |-> 0, ResultOk |-> 0, SwitchQuit |-> 0]

Outstanding == pending.Result + pending.ResultOk + pending.SwitchQuit

\* A run of the program: the host it runs on, whether it runs inside tmux, the
\* top-level menus the user visits, the sessions that come and go outside the
\* program, whether the terminal is resized, and the directories under projectsDir.
Run(host, inTmux, menus, sessions, resize, dirs) ==
    [hostname |-> host, insideTmux |-> inTmux, menus |-> menus, sessions |-> sessions,
     resize |-> resize, dirs |-> dirs]

FirstDirs(k) == {NamePool[i] : i \in 1..k}

\* the user works on projects: browses them and sets up new ones
ProjectRuns ==
    { Run("MacBookPro", t, {L("Browse Projects"), L("Setup New Project")}, {<<"a", "-", "b">>},
          FALSE, FirstDirs(k)) : t \in BOOLEAN, k \in 0..MaxInitProjects }

\* the user works in the tools menus
ToolRuns ==
    { Run("MacBookPro", FALSE, {L("Tools")}, {}, FALSE, FirstDirs(k)) : k \in 0..MaxInitProjects }
        \cup { Run("mac", FALSE, {L("Tools")}, {}, TRUE, FirstDirs(1)) }

\* the user is on the development host and works with its sessions
SessionRuns ==
    { Run("dev.lan", t, {L("Sessions"), L("Browse Projects")}, SessionPool, FALSE, FirstDirs(1)) :
        t \in BOOLEAN }

\* the user browses two projects whose names differ in '.' and '-' only
TwinRuns ==
    { Run("MacBookPro", FALSE, {L("Browse Projects")}, {<<"a", "-", "b">>}, FALSE,
          {<<"a", ".", "b">>, <<"a", "-", "b">>}) }

Runs == ProjectRuns \cup ToolRuns \cup SessionRuns \cup TwinRuns

Init ==
    /\ m = initialModel
    /\ user \in Runs
    /\ hostname = user.hostname
    /\ insideTmux = user.insideTmux
    /\ tmux \in SUBSET user.sessions
    /\ fs = user.dirs
    /\ nodeModules = {p \in PackageJson : \E d \in fs : p = Join(projectsDir, d)}
    /\ pending = NoPending
    /\ app = "running"
    /\ lastCmd = NilCmd
    /\ ran = <<>>

\* the item a key selects in the current state, <<>> when it selects none
Selects(key) ==
    IF key = "enter" /\ m.cursor < ItemCount(m) THEN getMenuItems(m)[m.cursor + 1]
    ELSE IF key \in Digits /\ DigitIndex(key) < ItemCount(m) THEN getMenuItems(m)[DigitIndex(key) + 1]
    ELSE <<>>

\* the runtime takes the command Update returned
Dispatch(c) ==
    CASE c.kind = "Quit"        -> app' = "quit" /\ pending' = pending
      [] c.kind = "ExecProcess" -> app' = "exec" /\ pending' = pending
      [] c.kind \in {"Result", "ResultOk", "SwitchQuit"} ->
            /\ Outstanding < MaxPending
            /\ app' = app
            /\ pending' = [pending EXCEPT ![c.kind] = @ + 1]
      [] OTHER -> app' = app /\ pending' = pending

Step(msg, nd) ==
    \E r \in {Update(m, msg, nd)} :
        /\ m' = r.m
        /\ tmux' = r.tmux
        /\ fs' = r.fs
        /\ nodeModules' = r.nodeModules
        /\ lastCmd' = r.cmd
        /\ ran' = r.ran
        /\ Dispatch(r.cmd)
        /\ UNCHANGED <<hostname, insideTmux, user>>

\* a key event is read and handled
KeyPress ==
    /\ app = "running"
    /\ \E key \in Keys : \E nd \in OutcomesFor(key) :
          /\ (m.state = "stateSetupProject" /\ m.textInput.focus /\ key \in Runes)
                => (key \in TypedChars /\ Len(m.textInput.value) < MaxNameLen)
          /\ (m.state = "stateMain" /\ Selects(key) \in {L("Browse Projects"), L("Setup New Project"),
                                                         L("Tools"), L("Sessions")})
                => Selects(key) \in user.menus
          /\ (m.state = "stateSetupProject" /\ key = "enter" /\ nd.mkdirOk)
                => Cardinality(fs) < MaxDirs
          /\ Step(KeyMsg(key), nd)

\* the terminal is resized
WindowSize ==
    /\ app = "running"
    /\ user.resize
    /\ \E sz \in Sizes : Step(WindowSizeMsg(sz[1], sz[2]), AnyOutcome)

\* a worker's cmdFinishedMsg is handled
CmdFinished ==
    /\ app = "running"
    /\ \E kind \in {"Result", "ResultOk"}, err \in BOOLEAN :
          /\ pending[kind] > 0
          /\ err => kind = "Result"
          /\ \E r \in {Update(m, cmdFinishedMsg(err), AnyOutcome)} :
                /\ m' = r.m
                /\ lastCmd' = r.cmd
                /\ ran' = r.ran
          /\ pending' = [pending EXCEPT ![kind] = @ - 1]
          /\ UNCHANGED <<hostname, insideTmux, tmux, fs, nodeModules, app, user>>

\* a worker that ran tmux switch-client returns tea.Quit()
SwitchQuitDone ==
    /\ app = "running"
    /\ pending.SwitchQuit > 0
    /\ pending' = [pending EXCEPT !.SwitchQuit = @ - 1]
    /\ app' = "quit"
    /\ UNCHANGED <<m, hostname, insideTmux, tmux, fs, nodeModules, lastCmd, ran, user>>

\* the process that owns the terminal fails to start or exits, with or without
\* an error; the runtime takes the message of the ExecProcess callback
ExecExit ==
    /\ app = "exec"
    /\ \E err \in BOOLEAN : \E msg \in {ExecCallback(err)} :
          IF msg.type = "QuitMsg"
          THEN /\ app' = "quit"
               /\ UNCHANGED <<m, lastCmd, ran>>
          ELSE /\ app' = "running"
               /\ \E r \in {Update(m, msg, AnyOutcome)} : m' = r.m /\ lastCmd' = r.cmd /\ ran' = r.ran
    /\ UNCHANGED <<hostname, insideTmux, tmux, fs, nodeModules, pending, user>>

\* a session is created or killed outside the program
TmuxChange ==
    /\ app = "running"
    /\ \E s \in user.sessions : tmux' = IF s \in tmux THEN tmux \ {s} ELSE tmux \cup {s}
    /\ UNCHANGED <<m, hostname, insideTmux, fs, nodeModules, pending, app, lastCmd, ran, user>>

Next ==
    \/ KeyPress
    \/ WindowSize
    \/ CmdFinished
    \/ SwitchQuitDone
    \/ ExecExit
    \/ TmuxChange

Spec == Init /\ [][Next]_vars



-----------------------------------------------------------------------------
(* Navigation properties *)

\* the cursor after Update has handled key in the current state
CursorAfter(key) == Update(m, KeyMsg(key), AnyOutcome).m.cursor

\* the state after Update has handled key in the current state
StateAfter(key) == Update(m, KeyMsg(key), AnyOutcome).m.state

\* C1: whenever the menu of the current state has items, the cursor is an
\* index of that menu: 0 <= cursor < len(getMenuItems())
C1_CursorInRange ==
    ItemCount(m) > 0 => (0 <= m.cursor /\ m.cursor < ItemCount(m))

\* the cursor stands on the last item of a two-column menu of four items or more
C1_Witness ==
    /\ m.state \in TwoColumn
    /\ ItemCount(m) >= 4
    /\ m.cursor = ItemCount(m) - 1

\* i and j lie in the same column of a two-column menu of n items
SameColumn(i, j, n) == (i < Rows(n)) <=> (j < Rows(n))

\* C2: in the two-column menus Up and Down never leave the column of the
\* cursor; Up changes nothing at index 0 and at index rows, Down changes
\* nothing at index rows-1 and at the last index
C2_UpDownWithinColumn ==
    (app = "running" /\ m.state \in TwoColumn) =>
        /\ \A key \in {"up", "k", "down", "j"} :
              SameColumn(m.cursor, CursorAfter(key), ItemCount(m))
        /\ \A key \in {"up", "k"} :
              m.cursor \in {0, Rows(ItemCount(m))} => CursorAfter(key) = m.cursor
        /\ \A key \in {"down", "j"} :
              m.cursor \in {Rows(ItemCount(m)) - 1, ItemCount(m) - 1} => CursorAfter(key) = m.cursor

\* C3: in the two-column menus Right moves the cursor from index i of the left
\* column to i+rows exactly when i+rows <= n-1 and changes nothing otherwise;
\* Left moves it from index i of the right column to i-rows and changes
\* nothing in the left column
C3_LeftRightMirror ==
    (app = "running" /\ m.state \in TwoColumn) =>
        /\ \A key \in {"right", "l"} :
              CursorAfter(key) =
                  IF m.cursor < Rows(ItemCount(m)) /\ m.cursor + Rows(ItemCount(m)) <= ItemCount(m) - 1
                  THEN m.cursor + Rows(ItemCount(m))
                  ELSE m.cursor
        /\ \A key \in {"left", "h"} :
              CursorAfter(key) =
                  IF m.cursor >= Rows(ItemCount(m)) THEN m.cursor - Rows(ItemCount(m)) ELSE m.cursor

\* the cursor stands in the last row of the left column of a project picker
\* with an odd number of items, where no item is to its right
C3_Witness ==
    /\ app = "running"
    /\ m.state = "stateSelectProject"
    /\ ItemCount(m) = 3
    /\ m.cursor = Rows(ItemCount(m)) - 1

\* C4: in every state other than the two-column menus Up decrements the
\* cursor unless it is 0, Down increments it unless it has reached
\* itemCount-1, neither wraps around, and Left and Right leave it alone
C4_SingleColumnMoves ==
    (app = "running" /\ m.state \notin TwoColumn) =>
        /\ \A key \in {"up", "k"} :
              CursorAfter(key) = IF m.cursor = 0 THEN m.cursor ELSE m.cursor - 1
        /\ \A key \in {"down", "j"} :
              CursorAfter(key) = IF m.cursor >= ItemCount(m) - 1 THEN m.cursor ELSE m.cursor + 1
        /\ \A key \in {"left", "h", "right", "l"} : CursorAfter(key) = m.cursor

\* the cursor stands on the last item of the tools menu
C4_Witness ==
    /\ app = "running"
    /\ m.state = "stateTools"
    /\ m.cursor = ItemCount(m) - 1

\* C5: every step that changes the state leaves the cursor at 0
C5_StateChangeResetsCursor ==
    [][m'.state # m.state => m'.cursor = 0]_vars

\* the project list after a return from the actions of a project
C5_Witness ==
    /\ m.state = "stateBrowseProjects"
    /\ m.selectedProject # <<>>
    /\ m.cursor = 0

\* the number of selections that lead from the root to a state
MenuDepth(state) ==
    CASE state = "stateMain" -> 0
      [] state \in {"stateBrowseProjects", "stateSetupProject", "stateTools", "stateSessions"} -> 1
      [] state = "stateSelectProject" -> 3
      [] OTHER -> 2

RECURSIVE BackTimes(_, _)
\* the model after k presses of esc
BackTimes(mm, k) ==
    IF k = 0 THEN mm ELSE BackTimes(Update(mm, KeyMsg("esc"), AnyOutcome).m, k - 1)

BackLabel(state) ==
    IF state \in {"stateBrowseProjects", "stateSetupProjectConfirm"} THEN L("Back to menu") ELSE L("Back")

\* the state after the back item of the current menu is selected
StateAfterBackLabel ==
    handleSelected(ClearMessage(m), BackLabel(m.state), AnyOutcome).m.state

\* C7: in every menu below the root esc, q and the back item of the menu all
\* lead to one and the same state
C7_OneParent ==
    (app = "running" /\ m.state \notin {"stateMain", "stateSetupProject"}) =>
        /\ StateAfter("q") = StateAfter("esc")
        /\ StateAfter("ctrl+c") = StateAfter("esc")
        /\ StateAfterBackLabel = StateAfter("esc")

\* the menu in which each project action starts a project picker
PickerOrigin(action) ==
    CASE action = "actionPrismaStudio"      -> "stateQuickAccess"
      [] action = "actionRemoveNodeModules" -> "stateSystemMaintenance"
      [] action \in {"actionNpmAudit", "actionNpmOutdated", "actionNpmUpdate",
                     "actionNpmDedupe", "actionNpmInstall"} -> "stateNpmUtilities"

\* C8: a project picker is left only for the menu it was entered from: the
\* pending action names that menu when the picker is entered, stays the same
\* while the picker is shown, and the step that leaves the picker leads to it
C8_PickerReturnsToOrigin ==
    [][ /\ (m.state # "stateSelectProject" /\ m'.state = "stateSelectProject")
            => m.state = PickerOrigin(m'.projectAction)
        /\ (m.state = "stateSelectProject" /\ m'.state = "stateSelectProject")
            => m'.projectAction = m.projectAction
        /\ (m.state = "stateSelectProject" /\ m'.state # "stateSelectProject")
            => m'.state = PickerOrigin(m.projectAction) ]_vars

\* the maintenance menu after a return from the picker it started
C8_Witness ==
    /\ m.state = "stateSystemMaintenance"
    /\ m.projectAction = "actionRemoveNodeModules"

\* C9 as stated: a back request in the root changes nothing: the program keeps
\* running, the state stays the root and the cursor keeps its value
C9_BackInRootKeepsCursor ==
    (app = "running" /\ m.state = "stateMain") =>
        \A r \in {Update(m, KeyMsg("esc"), AnyOutcome)} :
            /\ r.cmd.kind # "Quit"
            /\ r.m.state = "stateMain"
            /\ r.m.cursor = m.cursor

\* C9: esc in the root keeps the program running and the state the root and
\* puts the cursor on the first item; q and ctrl+c in the root quit
C9_BackInRoot ==
    (app = "running" /\ m.state = "stateMain") =>
        /\ \A r \in {Update(m, KeyMsg("esc"), AnyOutcome)} :
              /\ r.cmd = NilCmd
              /\ r.m = [ClearMessage(m) EXCEPT !.cursor = 0]
        /\ \A key \in {"q", "ctrl+c"} : Update(m, KeyMsg(key), AnyOutcome).cmd = teaQuit

\* the root with the cursor on its last item
C9_Witness ==
    /\ app = "running"
    /\ m.state = "stateMain"
    /\ m.cursor = Len(MainItems) - 1

\* the program ends in this step
Terminates == app # "quit" /\ app' = "quit"

\* C10 as stated: the program ends only when the foreground process exits or
\* on a quit made in the root
C10_QuitOnlyInRoot ==
    [][Terminates => (app = "exec" \/ (m.state = "stateMain" /\ lastCmd'.kind = "Quit"))]_vars

\* the keys that make Update return tea.Quit in the current state
QuitKeys == {key \in Keys : \E nd \in OutcomesFor(key) : Update(m, KeyMsg(key), nd).cmd.kind = "Quit"}

\* C10: the program ends only when the foreground process exits, on a quit
\* made in the root (q, ctrl+c, Skip), on ctrl+c in the project name input, or
\* when a session switch issued inside tmux has finished; no other key in a
\* state below the root and no command that reports a result ends it
C10_Termination ==
    /\ [][Terminates =>
              \/ app = "exec"
              \/ /\ lastCmd'.kind = "Quit"
                 /\ m.state \in {"stateMain", "stateSetupProject"}
              \/ /\ insideTmux
                 /\ pending'.SwitchQuit < pending.SwitchQuit]_vars
    /\ [](/\ m.state = "stateMain" =>
                QuitKeys = {"q", "ctrl+c"} \cup {key \in Keys : Selects(key) = L("Skip")}
          /\ m.state = "stateSetupProject" => QuitKeys = {"ctrl+c"}
          /\ m.state \notin {"stateMain", "stateSetupProject"} => QuitKeys = {}
          /\ \A err \in BOOLEAN : Update(m, cmdFinishedMsg(err), AnyOutcome).cmd = NilCmd)

\* the program has ended on ctrl+c in the project name input
C10_Witness ==
    /\ app = "quit"
    /\ m.state = "stateSetupProject"
    /\ lastCmd.kind = "Quit"

-----------------------------------------------------------------------------
(* Command execution properties *)

SessionLabels ==
    CASE m.state = "stateProjectActions"      -> {L("Attach"), L("Open"), L("Claude-logged")}
      [] m.state = "stateSessionActions"      -> {L("Resume")}
      [] m.state = "stateSetupProjectConfirm" -> {L("Start working here"), L("Launch claude-logged")}
      [] OTHER -> {}

\* the menu items that start a program which takes the terminal on every host
TerminalLabels ==
    CASE m.state = "stateMain"        -> {L("Connect to dev")}
      [] m.state = "stateQuickAccess" -> {L("SSH to MacBookPro"), L("SSH to dev"), L("PostgreSQL shell")}
      [] m.state = "stateDevTools"    -> {L("Start ngrok")}
      [] m.state = "stateSelectProject" /\ m.projectAction = "actionPrismaStudio"
            -> {getMenuItems(m)[i] : i \in 1..ItemCount(m)} \ {L("Back")}
      [] OTHER -> {}

\* the kind of the command that Update returns for key
CmdKindAfter(key) == Update(m, KeyMsg(key), AnyOutcome).cmd.kind

\* C12 as stated: once a remote login, a session attach, open or resume, a
\* database shell, ngrok or Prisma Studio has been selected, no step changes
\* the model before the program ends
C12_SuspendedUntilExit ==
    [][(app = "exec" \/ pending.SwitchQuit > 0) => (m' = m /\ app' \in {app, "quit"})]_vars

\* C12: a selection that hands the terminal to a process (remote login,
\* database shell, ngrok, Prisma Studio, and session attach, open or resume
\* outside tmux) suspends the loop: the only step that follows is the exit of
\* the process, which ends the program with the model unchanged; inside tmux a
\* session attach, open or resume starts a worker instead, the loop keeps
\* handling events, and the program ends when the worker has finished
C12_ForegroundThenQuit ==
    /\ [](app = "running" =>
            \A key \in {"enter"} \cup Digits :
                /\ Selects(key) \in TerminalLabels => CmdKindAfter(key) = "ExecProcess"
                /\ Selects(key) \in SessionLabels =>
                      CmdKindAfter(key) = IF insideTmux THEN "SwitchQuit" ELSE "ExecProcess")
    /\ [][ /\ app = "exec" => (m' = m /\ app' = "quit" /\ pending' = pending /\ tmux' = tmux)
           /\ pending'.SwitchQuit < pending.SwitchQuit => (m' = m /\ app' = "quit")
           /\ pending'.SwitchQuit > pending.SwitchQuit => (insideTmux /\ app' = "running") ]_vars

\* the program has ended after tmux attach, which owned the terminal
C12_Witness ==
    /\ app = "quit"
    /\ ~insideTmux
    /\ lastCmd.kind = "ExecProcess"
    /\ lastCmd.prog = "tmux attach"

\* the background commands dispatched whose completion has not been handled
BackgroundOutstanding == pending.Result + pending.ResultOk

\* C13: at every moment at most one background command is outstanding
C13_OneOutstanding == BackgroundOutstanding <= 1

\* C14: no step of the event loop runs an external command inside Update and
\* waits for it to exit
C14_NoSynchronousCommand ==
    [][ran' = <<>>]_vars

-----------------------------------------------------------------------------
(* Message and error properties *)

\* C15: every key event clears the message that was there before it: the
\* message and its kind after the event are those that the same event leaves
\* when no message was there
C15_KeyClearsMessage ==
    app = "running" =>
        \A key \in Keys : \A nd \in OutcomesFor(key) :
            /\ Update(m, KeyMsg(key), nd).m.message
                  = Update(ClearMessage(m), KeyMsg(key), nd).m.message
            /\ Update(m, KeyMsg(key), nd).m.messageType
                  = Update(ClearMessage(m), KeyMsg(key), nd).m.messageType

\* the creation of the project named in the text input fails under outcome nd
SetupFails(nd) ==
    \/ m.textInput.value = <<>>
    \/ m.textInput.value \in fs
    \/ ~nd.mkdirOk
    \/ ~nd.gitOk

\* C16: in the project name input, enter with an empty name, with the name of
\* an existing directory, or with a failing mkdir or git init leaves a message
\* of kind error, the same state and cursor, and returns no command; enter
\* moves to the setup confirmation only when the creation succeeds, and no
\* other step enters the setup confirmation
C16_SetupErrors ==
    /\ [](app = "running" /\ m.state = "stateSetupProject" =>
            \A nd \in Outcomes : \A r \in {Update(m, KeyMsg("enter"), nd)} :
                IF SetupFails(nd)
                THEN /\ r.m.messageType = "error"
                     /\ r.m.message # NoMessage
                     /\ r.m.state = "stateSetupProject"
                     /\ r.m.cursor = m.cursor
                     /\ r.cmd = NilCmd
                ELSE /\ r.m.messageType = "success"
                     /\ r.m.state = "stateSetupProjectConfirm")
    /\ [][(m'.state = "stateSetupProjectConfirm" /\ m.state # "stateSetupProjectConfirm") =>
            /\ m.state = "stateSetupProject"
            /\ m'.messageType = "success"
            /\ m'.selectedProject = m.textInput.value
            /\ m'.selectedProject \in fs' \ fs
            /\ app' = "running"]_vars

\* the project name input after git init failed
C16_Witness ==
    /\ app = "running"
    /\ m.state = "stateSetupProject"
    /\ m.message.text = "Error initializing git"
    /\ m.messageType = "error"

-----------------------------------------------------------------------------
(* Menu properties *)

\* the result of enter with the cursor on item i (from 1) of the current menu
SelectItem(i, nd) == Update([m EXCEPT !.cursor = i - 1], KeyMsg("enter"), nd)

\* C17: the selection of any item of the menu of any reachable state takes a
\* defined branch: it changes the state, leaves a message, or returns a
\* command (quit included); it never returns the model as it was with no command
C17_SelectionTotal ==
    app = "running" =>
        \A i \in 1..ItemCount(m) : \A nd \in OutcomesFor("enter") : \A r \in {SelectItem(i, nd)} :
            \/ r.m.state # m.state
            \/ r.m.message # NoMessage
            \/ r.cmd # NilCmd

\* the actions of a project whose menu was built while its session was alive,
\* after the session has ended
C17_Witness ==
    /\ app = "running"
    /\ m.state = "stateProjectActions"
    /\ sanitizeTmuxName(m.selectedProject) \in m.activeSessions
    /\ sanitizeTmuxName(m.selectedProject) \notin tmux

\* the last item of the current menu
LastItem == getMenuItems(m)[ItemCount(m)]

\* the item that leaves each menu: the back item, and Skip in the root
TerminalLabel(state) ==
    CASE state = "stateMain" -> L("Skip")
      [] state \in {"stateBrowseProjects", "stateSetupProjectConfirm"} -> L("Back to menu")
      [] OTHER -> L("Back")

\* C18 as stated: in every state getMenuItems returns a non-empty list that
\* holds a back item or an equivalent item that leaves the menu
C18_ItemsNonEmpty ==
    /\ ItemCount(m) > 0
    /\ \E i \in 1..ItemCount(m) : getMenuItems(m)[i] = TerminalLabel(m.state)

\* C18: in every state but the project name input getMenuItems returns a
\* non-empty list whose last item is the back item of the state (Skip in the
\* root), and selecting it leaves the state or quits; in the project name
\* input getMenuItems returns the empty list
C18_ItemsEndWithBack ==
    /\ m.state = "stateSetupProject" => getMenuItems(m) = <<>>
    /\ m.state # "stateSetupProject" =>
          /\ ItemCount(m) > 0
          /\ LastItem = TerminalLabel(m.state)
          /\ app = "running" =>
                \A r \in {SelectItem(ItemCount(m), AnyOutcome)} :
                    IF m.state = "stateMain" THEN r.cmd = teaQuit ELSE r.m.state # m.state

\* the session list with no session: the menu holds the back item only
C18_Witness ==
    /\ app = "running"
    /\ m.state = "stateSessions"
    /\ getMenuItems(m) = <<L("Back")>>

\* label is an item of the current menu
Offers(label) == \E i \in 1..ItemCount(m) : getMenuItems(m)[i] = label

ActionItemsFor(sessions) ==
    /\ getMenuItems(m)[1] =
          IF sanitizeTmuxName(m.selectedProject) \in sessions THEN L("Attach") ELSE L("Open")
    /\ Offers(L("Kill session")) <=> sanitizeTmuxName(m.selectedProject) \in sessions

-----------------------------------------------------------------------------
(* Session properties *)

\* the session of the selected project is alive
SessionAlive == sanitizeTmuxName(m.selectedProject) \in tmux

\* the command returned by the selection of the first item of the project actions
FirstActionCmd == SelectItem(1, AnyOutcome).cmd

-----------------------------------------------------------------------------
(* Catalog properties *)

\* the back label of the two menus that list the project catalog
CatalogBackLabel == IF m.state = "stateBrowseProjects" THEN L("Back to menu") ELSE L("Back")

\* C22: in the project browser and in the project picker the items are the
\* names of the catalog in catalog order followed by one back label (the back
\* label alone for an empty catalog), and no item before the last equals the
\* back label
C22_CatalogThenOneBack ==
    m.state \in {"stateBrowseProjects", "stateSelectProject"} =>
        /\ getMenuItems(m) = m.projects \o <<CatalogBackLabel>>
        /\ \A i \in 1..Len(m.projects) : getMenuItems(m)[i] # CatalogBackLabel

-----------------------------------------------------------------------------
(* Shortcut properties *)

\* the key of the digit N
DigitKey == <<"1", "2", "3", "4", "5", "6", "7", "8", "9">>

\* C23: in every menu state the digit N with N <= itemCount has the effect of
\* enter with the cursor on index N-1 (same model, same command, same external
\* effects); with N > itemCount the state and the cursor stay and no command
\* is returned
C23_DigitIsCursorEnter ==
    (app = "running" /\ m.state # "stateSetupProject") =>
        \A N \in 1..9 : \A nd \in OutcomesFor("enter") :
            IF N <= ItemCount(m)
            THEN Update(m, KeyMsg(DigitKey[N]), nd) = SelectItem(N, nd)
            ELSE Update(m, KeyMsg(DigitKey[N]), nd) = R(ClearMessage(m), NilCmd)

\* the npm utilities with the cursor on the first item: 7 is the back item,
\* 8 is beyond the list
C23_Witness ==
    /\ app = "running"
    /\ m.state = "stateNpmUtilities"
    /\ m.cursor = 0
    /\ Update(m, KeyMsg("7"), AnyOutcome).m.state = "stateTools"
    /\ Update(m, KeyMsg("2"), AnyOutcome).cmd = SelectItem(2, AnyOutcome).cmd
    /\ Update(m, KeyMsg("2"), AnyOutcome).m.state = "stateSelectProject"
    /\ Update(m, KeyMsg("8"), AnyOutcome).m.state = "stateNpmUtilities"

-----------------------------------------------------------------------------
(* Project picker properties *)

\* the project action that each menu item starts a project picker for
ActionOfItem(label) ==
    CASE label = L("Prisma Studio (select project)")      -> "actionPrismaStudio"
      [] label = L("Remove node_modules (select project)") -> "actionRemoveNodeModules"
      [] label = L("npm audit")    -> "actionNpmAudit"
      [] label = L("npm outdated") -> "actionNpmOutdated"
      [] label = L("npm update")   -> "actionNpmUpdate"
      [] label = L("npm dedupe")   -> "actionNpmDedupe"
      [] label = L("npm install")  -> "actionNpmInstall"
      [] OTHER -> "none"

\* the program that each project action runs
ProgramOf(action) ==
    CASE action = "actionPrismaStudio" -> "npx prisma studio"
      [] action = "actionNpmAudit"     -> "npm audit"
      [] action = "actionNpmOutdated"  -> "npm outdated"
      [] action = "actionNpmUpdate"    -> "npm update"
      [] action = "actionNpmDedupe"    -> "npm dedupe"
      [] action = "actionNpmInstall"   -> "npm install"
      [] OTHER -> ""

\* the path of the project named name: its directory under projectsDir
OwnPath(name) == Join(projectsDir, name)

-----------------------------------------------------------------------------
(* sanitizeTmuxName on the names of project directories *)

MaxSessionNameLen == 3

\* the characters of the directory names: the two that tmux reserves, the one
\* that replaces them, and a plain one
SanitizeChars == {".", ":", "-", "a"}

\* the directory names of 1 to MaxSessionNameLen characters
SessionNameInputs == UNION {[1..n -> SanitizeChars] : n \in 1..MaxSessionNameLen}

\* The program after "Browse Projects" and the selection of the one project
\* directory, named x, with or without a session of its sanitized name.
SanitizeInit ==
    \E x \in SessionNameInputs : \E t \in BOOLEAN :
        /\ user = Run("MacBookPro", t, {L("Browse Projects")}, {sanitizeTmuxName(x)}, FALSE, {x})
        /\ hostname = user.hostname
        /\ insideTmux = user.insideTmux
        /\ tmux \in SUBSET user.sessions
        /\ fs = user.dirs
        /\ nodeModules = {}
        /\ pending = NoPending
        /\ app = "running"
        /\ lastCmd = NilCmd
        /\ ran = <<>>
        /\ m = handleBrowseProjects(loadProjects(Enter(initialModel, "stateBrowseProjects"),
                                                 FALSE), x).m

\* the first item of the project actions (Attach or Open) is selected
SelectFirstAction ==
    /\ app = "running"
    /\ m.state = "stateProjectActions"
    /\ Step(KeyMsg("1"), AnyOutcome)

SanitizeNext == SelectFirstAction

SanitizeSpec == SanitizeInit /\ [][SanitizeNext]_vars

\* the session name of the selected project
SessionNameOfProject == sanitizeTmuxName(m.selectedProject)

\* C26: sanitizeTmuxName gives a result for every name, the result holds
\* neither '.' nor ':', and sanitizing the result again gives the same
\* result; the name handed to tmux is that result
C26_SanitizeIdempotent ==
    /\ Len(SessionNameOfProject) = Len(m.selectedProject)
    /\ \A i \in 1..Len(SessionNameOfProject) : SessionNameOfProject[i] \notin {".", ":"}
    /\ \A i \in 1..Len(SessionNameOfProject) :
          SessionNameOfProject[i] =
              IF m.selectedProject[i] \in {".", ":"} THEN "-" ELSE m.selectedProject[i]
    /\ sanitizeTmuxName(SessionNameOfProject) = SessionNameOfProject
    /\ lastCmd # NilCmd => lastCmd.target = SessionNameOfProject

\* the session of the project named ".:a" is opened under the name "--a"
C26_Witness ==
    /\ m.selectedProject = <<".", ":", "a">>
    /\ lastCmd.prog = "tmux new-session"
    /\ lastCmd.target = <<"-", "-", "a">>

-----------------------------------------------------------------------------
(* Determinism of the menus *)

\* C27: for fixed external facts (host, live sessions, project directories,
\* pending action) the item list of the menu that a selection leads to is the
\* same every time it is produced, the session list rebuilt by loadSessions
\* included
C27_ItemsDeterministic ==
    app = "running" =>
        \A i \in 1..ItemCount(m) : \A nd1, nd2 \in OutcomesFor("enter") :
            getMenuItems(SelectItem(i, nd1).m) = getMenuItems(SelectItem(i, nd2).m)

-----------------------------------------------------------------------------
(* The root menu *)

-----------------------------------------------------------------------------
(* Frame of the completion of a command *)

\* the model with the message of a finished command and nothing else changed
WithResult(err) ==
    [m EXCEPT !.message     = IF err THEN Message("Error", <<"output">>)
                              ELSE Message("output", <<>>),
              !.messageType = IF err THEN "error" ELSE "success"]

\* C29: the handling of cmdFinishedMsg changes the message and its kind only
\* (error with the error and the output when the command failed, success with
\* the output otherwise): state, cursor, selected project and session, pending
\* action, the loaded lists and the text input stay, no command is returned
\* and nothing outside the program changes, in whatever state the event arrives
C29_CompletionFrame ==
    /\ [](app = "running" =>
            \A err \in BOOLEAN : \A r \in {Update(m, cmdFinishedMsg(err), AnyOutcome)} :
                /\ r.m = WithResult(err)
                /\ r.cmd = NilCmd
                /\ r.ran = <<>>
                /\ r.tmux = tmux /\ r.fs = fs /\ r.nodeModules = nodeModules)
    /\ [][BackgroundOutstanding' < BackgroundOutstanding =>
            /\ \E err \in BOOLEAN : m' = WithResult(err)
            /\ m'.state = m.state /\ m'.cursor = m.cursor
            /\ m'.selectedProject = m.selectedProject /\ m'.selectedSession = m.selectedSession
            /\ m'.projectAction = m.projectAction
            /\ m'.projects = m.projects /\ m'.sessionNames = m.sessionNames
            /\ app' = "running"
            /\ <<tmux', fs', nodeModules'>> = <<tmux, fs, nodeModules>>]_vars

\* a command started in a project picker has failed after the user went back
\* to the root menu: the error is shown there
C29_Witness ==
    /\ app = "running"
    /\ m.state = "stateMain"
    /\ m.projectAction = "actionNpmAudit"
    /\ m.message = Message("Error", <<"output">>)
    /\ m.messageType = "error"
    /\ m.cursor = 0

-----------------------------------------------------------------------------
(* The project name input *)

\* C30: whenever the state is the project name input the text input is
\* focused, so that a printable key is appended to the name, however the state
\* was entered
C30_SetupInputFocused ==
    m.state = "stateSetupProject" =>
        /\ m.textInput.focus
        /\ app = "running" =>
              \A c \in TypedChars :
                  Len(m.textInput.value) < CharLimit =>
                      Update(m, KeyMsg(c), AnyOutcome).m.textInput.value
                          = Append(m.textInput.value, c)

-----------------------------------------------------------------------------
(* Project creation and the file system *)

\* C31: when the creation of a project reports an error, the directories
\* under projectsDir are those that were there before, so the same name is
\* not rejected as existing when it is confirmed again
C31_CreateAllOrNothing ==
    (app = "running" /\ m.state = "stateSetupProject") =>
        \A nd \in Outcomes : \A r \in {Update(m, KeyMsg("enter"), nd)} :
            r.m.messageType = "error" =>
                /\ r.fs = fs
                /\ (m.textInput.value # <<>> /\ m.textInput.value \notin fs) =>
                      m.textInput.value \notin r.fs

-----------------------------------------------------------------------------
(* Selection by position *)

\* the number of entries listed in the current menu before its back item
EntryCount ==
    CASE m.state \in {"stateBrowseProjects", "stateSelectProject"} -> Len(m.projects)
      [] m.state = "stateSessions" -> Len(m.sessionNames)
      [] OTHER -> 0

\* C32: in the project browser, the project picker and the session list, the
\* selection of the i-th listed entry acts on that entry, its name and its
\* path at index i, and never as the back item, whatever the entry is named
C32_SelectsEntryAtIndex ==
    app = "running" =>
        \A i \in 1..EntryCount : \A r \in {SelectItem(i, AnyOutcome)} :
            CASE m.state = "stateBrowseProjects" ->
                    /\ r.m.state = "stateProjectActions"
                    /\ r.m.selectedProject = m.projects[i]
                    /\ r.m.selectedPath = m.projectPaths[i]
              [] m.state = "stateSessions" ->
                    /\ r.m.state = "stateSessionActions"
                    /\ r.m.selectedSession = m.sessionNames[i]
              [] m.state = "stateSelectProject" ->
                    IF m.projectAction = "actionRemoveNodeModules"
                    THEN /\ r.m.message.arg = m.projects[i]
                         /\ r.nodeModules = nodeModules \ {m.projectPaths[i]}
                    ELSE /\ r.m.state = "stateSelectProject"
                         /\ r.cmd.dir = m.projectPaths[i]

-----------------------------------------------------------------------------
(* Session names of the projects *)

\* C33: two different projects listed in the project browser never have the
\* same sanitized session name
C33_SessionNamesDistinct ==
    m.state = "stateBrowseProjects" =>
        \A i, j \in 1..Len(m.projects) :
            i # j => sanitizeTmuxName(m.projects[i]) # sanitizeTmuxName(m.projects[j])

====
